---- MODULE Spec2Model ----
(***************************************************************************)
(* A model of program_searcher.program_model (the Statement and Program    *)
(* classes) and of the mutation strategies of                              *)
(* program_searcher.mutation_strategy.  The Program that calls are made on *)
(* is the state; every public method and every strategy is an action.      *)
(* copy() adds a second Program, kept in the variable other.  Python       *)
(* values that the code stores in a statement can be a str, a list of str  *)
(* or None, so they are carried as tagged records.  The evolution          *)
(* operators of program_searcher.evolution_operator work on a population   *)
(* of Program objects and a fitness map keyed by those objects; objects    *)
(* are numbered, and the population and the map hold the numbers.          *)
(* ProgramSearch of program_searcher.program_search is the variable        *)
(* search: the object its constructor validates and the end of search().   *)
(***************************************************************************)
EXTENDS Integers, Sequences, FiniteSets, TLC

VARIABLES
    statements,            \* Program._statements
    variables,             \* Program._variables
    last_variable_index,   \* Program.last_variable_index
    has_return_statement,  \* Program.has_return_statement
    reutrn_vars_count,     \* Program.reutrn_vars_count (set at construction)
    allocated,             \* history: the k of every name x<k> allocated so far
    last,                  \* the last call and how it ended
    other,                 \* the second Program once copy() was called: <<>>
                           \* before, <<p>> after
    population,            \* the deque of the population: object numbers,
                           \* 0 for None
    fitnesses,             \* the fitness map: object number -> fitness
    objects,               \* object number -> the Program with that identity
    operator,              \* the evolution operator constructed: <<>> before,
                           \* <<op>> after
    search                 \* the ProgramSearch constructed and the position
                           \* of its search(): <<>> before, <<ps>> after

vars == <<statements, variables, last_variable_index, has_return_statement,
          reutrn_vars_count, allocated, last, other,
          population, fitnesses, objects, operator, search>>

\* the state of the search: population, fitness map, operator and the
\* ProgramSearch
evolution_vars == <<population, fitnesses, objects, operator, search>>

----------------------------------------------------------------------------
(* Bounds of the model and the inputs the calls are drawn from *)

MaxVariableIndex == 2
MaxStatements == 2

program_name == "test_program"
program_arg_names == <<"a", "b">>

RETURN_KEYWORD == "return"
CONST_KEYWORD == "const"

Funcs == {"add", RETURN_KEYWORD}
ArgLists == {<<"a">>, <<"x1">>, <<"a", "b">>}
ReturnCounts == {1, 2}

----------------------------------------------------------------------------
(* Python values: str, list of str, None *)

StrV(s) == [kind |-> "str", s |-> s, l |-> <<>>]
ListV(l) == [kind |-> "list", s |-> "", l |-> l]
NoneV == [kind |-> "none", s |-> "", l |-> <<>>]

Range(q) == {q[k] : k \in 1..Len(q)}

\* len(v) for a str or a list
PyLen(v) == IF v.kind = "list" THEN Len(v.l) ELSE Len(v.s)

\* what iterating over v yields: the items of a list, the characters of a str
PyItems(v) ==
    IF v.kind = "list" THEN v.l ELSE [k \in 1..Len(v.s) |-> SubSeq(v.s, k, k)]

\* "x in c" raises TypeError when c is a str and x is not
PyInRaises(x, c) == c.kind = "str" /\ x.kind # "str"

\* "x in c": membership in a list, substring of a str
PyIn(x, c) ==
    IF c.kind = "list"
    THEN x.kind = "str" /\ x.s \in Range(c.l)
    ELSE x.kind = "str" /\
         \E i \in 1..(Len(c.s) + 1) : \E j \in (i - 1)..Len(c.s) :
             SubSeq(c.s, i, j) = x.s

\* list.insert(i, x) with Python's clamping of the index
ListInsert(q, i, x) ==
    LET n == Len(q)
        j0 == IF i < 0 THEN i + n ELSE i
        j == IF j0 < 0 THEN 0 ELSE IF j0 > n THEN n ELSE j0
    IN SubSeq(q, 1, j) \o <<x>> \o SubSeq(q, j + 1, n)

\* the sequence without its k-th element (1-based)
DeleteAt(q, k) == SubSeq(q, 1, k - 1) \o SubSeq(q, k + 1, Len(q))

----------------------------------------------------------------------------
(* Statement *)

\* Statement.__init__(args, func)
Statement(args, func) ==
    [args |-> args, func |-> func, result_var_name |-> NoneV]

RECURSIVE Join(_, _)
\* sep.join(q) for a sequence of str
Join(q, sep) ==
    IF q = <<>> THEN ""
    ELSE IF Len(q) = 1 THEN q[1]
    ELSE q[1] \o sep \o Join(Tail(q), sep)

\* how an f-string formats a value: a str as itself, None as "None", a list
\* as the repr of its items in brackets
PyStr(v) ==
    IF v.kind = "str" THEN v.s
    ELSE IF v.kind = "none" THEN "None"
    ELSE "[" \o Join([k \in 1..Len(v.l) |-> "'" \o v.l[k] \o "'"], ", ") \o "]"

\* Statement.to_code
to_code(stmt) ==
    LET items == PyItems(stmt.args)
        args_str == IF Len(items) = 1 THEN items[1] ELSE Join(items, ", ")
        result == PyStr(stmt.result_var_name)
    IN IF Len(items) = 0
       THEN result \o "=" \o PyStr(stmt.func) \o "()"
       ELSE IF stmt.func = StrV(CONST_KEYWORD)
       THEN result \o "=" \o args_str
       ELSE IF stmt.func = StrV(RETURN_KEYWORD)
       THEN "return " \o args_str
       ELSE result \o "=" \o PyStr(stmt.func) \o "(" \o args_str \o ")"

\* Statement.__eq__: func and args, the result variable is not compared
StatementEq(s, t) == s.func = t.func /\ s.args = t.args

----------------------------------------------------------------------------
(* Program *)

\* f"x{self.last_variable_index}"
VariableName(k) == "x" \o ToString(k)

\* a name allocation that numbers the new statement by the current length
variable_index_ByLength == Len(statements) + 1

\* the k of the name insert_statement allocates
variable_index == last_variable_index

\* self.last_variable_index += 1
NextVariableIndex(k) == k + 1

\* a call and how it ended: the method, the exception class raised ("" for
\* none) with the raise site, the statement index the error message names
\* (-1 for none), the value returned ("" for None), the number of
\* remove_statement calls a mutation strategy made and the arguments of a
\* call on an evolution operator
Call(op, exc, why, at, result) ==
    [op |-> op, exc |-> exc, why |-> why, at |-> at, result |-> result,
     calls |-> 0, args |-> <<>>]

\* the call returned the value result
Returned(op, result) == Call(op, "", "", -1, result)

\* the call raised the exception exc at the raise site why
Raised(op, exc, why) == Call(op, exc, why, -1, "")

Init ==
    /\ statements = <<>>
    /\ variables = program_arg_names
    /\ last_variable_index = 1
    /\ has_return_statement = FALSE
    /\ reutrn_vars_count \in ReturnCounts
    /\ allocated = <<>>
    /\ last = Returned("__init__", "")
    /\ other = <<>>
    /\ population = <<>>
    /\ fitnesses = <<>>
    /\ objects = <<>>
    /\ operator = <<>>
    /\ search = <<>>

\* Program.insert_statement(statement, index) with a new Statement(args, func)
insert_statement(args, func, index) ==
    LET variable_name == VariableName(variable_index)
        statement == [Statement(ListV(args), StrV(func))
                        EXCEPT !.result_var_name = StrV(variable_name)]
    IN /\ last_variable_index <= MaxVariableIndex
       /\ Len(statements) < MaxStatements
       /\ last_variable_index' = NextVariableIndex(last_variable_index)
       /\ allocated' = Append(allocated, variable_index)
       /\ variables' = Append(variables, variable_name)
       /\ has_return_statement' =
              IF func = RETURN_KEYWORD THEN TRUE ELSE has_return_statement
       /\ statements' = IF index = -1
                        THEN Append(statements, statement)
                        ELSE ListInsert(statements, index, statement)
       /\ last' = Returned("insert_statement", "")
       /\ UNCHANGED reutrn_vars_count

\* Program._ensure_proper_stmt_index: TRUE when it raises
IndexRaises(index) == index < 0 \/ index > Len(statements) - 1

\* the loop of remove_statement over all statements, from position k on:
\* the exception it ends with, or "" when it runs to the end
RECURSIVE RemoveScan(_, _)
RemoveScan(name, k) ==
    IF k > Len(statements) THEN ""
    ELSE IF PyInRaises(name, statements[k].args) THEN "TypeError"
    ELSE IF PyIn(name, statements[k].args) THEN "RemoveStatementError"
    ELSE RemoveScan(name, k + 1)

\* list.remove(x): the position of the first element equal to x (0 if none)
FirstEqualStatement(stmt) ==
    LET hits == {k \in 1..Len(statements) : StatementEq(statements[k], stmt)}
    IN IF hits = {} THEN 0 ELSE CHOOSE k \in hits : \A m \in hits : k <= m

\* list.remove(x) on a list of str: the position of the first x (0 if none)
FirstIndexOf(q, x) ==
    LET hits == {k \in 1..Len(q) : q[k] = x}
    IN IF hits = {} THEN 0 ELSE CHOOSE k \in hits : \A m \in hits : k <= m

\* what remove_statement(index) does in the current state: the exception it
\* ends with ("" for none), the raise site, and the statements and variables
\* it leaves
RemoveResult(index) ==
    LET Result(exc, why, stmts, vrs) ==
            [exc |-> exc, why |-> why, statements |-> stmts, variables |-> vrs]
    IN IF statements = <<>>
       THEN Result("RemoveStatementError", "nothing_to_remove",
                   statements, variables)
       ELSE IF IndexRaises(index)
       THEN Result("InvalidStatementIndexError", "invalid_index",
                   statements, variables)
       ELSE
         LET stmt_to_remove == statements[index + 1]
             name == stmt_to_remove.result_var_name
             scan == RemoveScan(name, 1)
             pos == IF name.kind = "str" THEN FirstIndexOf(variables, name.s)
                    ELSE 0
             removed == DeleteAt(statements, FirstEqualStatement(stmt_to_remove))
         IN IF scan = "RemoveStatementError"
            THEN Result("RemoveStatementError", "still_referenced",
                        statements, variables)
            ELSE IF scan = "TypeError"
            THEN Result("TypeError", "in_string", statements, variables)
            ELSE IF pos = 0
            THEN Result("ValueError", "not_in_list", removed, variables)
            ELSE Result("", "", removed, DeleteAt(variables, pos))

\* Program.remove_statement(index)
remove_statement(index) ==
    LET r == RemoveResult(index)
    IN /\ statements' = r.statements
       /\ variables' = r.variables
       /\ last' = Call("remove_statement", r.exc, r.why, -1, "")
       /\ UNCHANGED <<last_variable_index, has_return_statement,
                      reutrn_vars_count, allocated>>

\* a replacement that overwrites the arguments and keeps the old function
update_statement_full_KeepsFunc(index, new_func, new_args) ==
    /\ UNCHANGED <<variables, last_variable_index, has_return_statement,
                   reutrn_vars_count, allocated>>
    /\ IF statements = <<>>
       THEN /\ last' = Raised("update_statement_full",
                              "RemoveStatementError", "nothing_to_replace")
            /\ UNCHANGED statements
       ELSE IF index < 0 \/ index > Len(statements) - 1
       THEN /\ last' = Raised("update_statement_full",
                              "InvalidStatementIndexError", "invalid_index")
            /\ UNCHANGED statements
       ELSE /\ statements' = [statements EXCEPT
                                 ![index + 1].args = ListV(new_args)]
            /\ last' = Returned("update_statement_full", "")

\* Program.update_statement_full(index, new_func, new_args)
update_statement_full(index, new_func, new_args) ==
    /\ UNCHANGED <<variables, last_variable_index, has_return_statement,
                   reutrn_vars_count, allocated>>
    /\ IF statements = <<>>
       THEN /\ last' = Raised("update_statement_full",
                              "RemoveStatementError", "nothing_to_replace")
            /\ UNCHANGED statements
       ELSE IF IndexRaises(index)
       THEN /\ last' = Raised("update_statement_full",
                              "InvalidStatementIndexError", "invalid_index")
            /\ UNCHANGED statements
       ELSE /\ statements' = [statements EXCEPT
                                 ![index + 1].args = ListV(new_args),
                                 ![index + 1].func = StrV(new_func)]
            /\ last' = Returned("update_statement_full", "")

\* an update that assigns the new arguments without comparing the lengths
update_statment_args_NoLengthCheck(index, new_args) ==
    /\ UNCHANGED <<variables, last_variable_index, has_return_statement,
                   reutrn_vars_count, allocated>>
    /\ IF index < 0 \/ index > Len(statements) - 1
       THEN /\ last' = Raised("update_statment_args",
                              "InvalidStatementIndexError", "invalid_index")
            /\ UNCHANGED statements
       ELSE /\ statements' = [statements EXCEPT
                                 ![index + 1].args = ListV(new_args)]
            /\ last' = Returned("update_statment_args", "")

\* Program.update_statment_args(index, new_args)
update_statment_args(index, new_args) ==
    /\ UNCHANGED <<variables, last_variable_index, has_return_statement,
                   reutrn_vars_count, allocated>>
    /\ IF IndexRaises(index)
       THEN /\ last' = Raised("update_statment_args",
                              "InvalidStatementIndexError", "invalid_index")
            /\ UNCHANGED statements
       ELSE IF PyLen(statements[index + 1].args) # Len(new_args)
       THEN /\ last' = Raised("update_statment_args",
                              "UpdateStatementArgumentsError", "length")
            /\ UNCHANGED statements
       ELSE /\ statements' = [statements EXCEPT
                                 ![index + 1].args = ListV(new_args)]
            /\ last' = Returned("update_statment_args", "")

\* q[-n:], the slice _add_return_statement_if_not_contained takes
LastSlice(q, n) ==
    IF n = 0 \/ n >= Len(q) THEN q ELSE SubSeq(q, Len(q) - n + 1, Len(q))

\* Program._add_return_statement_if_not_contained: the statements after it.
\* The call is Statement("return", return_vars), and the parameters of
\* Statement.__init__ are (args, func) in this order.
add_return_statement_if_not_contained ==
    IF has_return_statement
    THEN statements
    ELSE LET return_vars == LastSlice(variables, reutrn_vars_count)
             return_stmt == Statement(StrV("return"), ListV(return_vars))
         IN Append(statements, return_stmt)

\* the text generate_code builds from the statements it is left with
ProgramText(stmts) ==
    "def " \o program_name
    \o (IF program_arg_names # <<>>
        THEN "(" \o Join(program_arg_names, ", ") \o "):\n"
        ELSE "():\n")
    \o Join([k \in 1..Len(stmts) |-> "   " \o to_code(stmts[k]) \o "\n"], "")

\* Program.generate_code()
generate_code ==
    /\ has_return_statement \/ Len(statements) < MaxStatements
    /\ statements' = add_return_statement_if_not_contained
    /\ last' = Returned("generate_code", ProgramText(statements'))
    /\ UNCHANGED <<variables, last_variable_index, has_return_statement,
                   reutrn_vars_count, allocated>>

\* the outcome of abstract_execution: the exception class ("" for none), the
\* check that failed and the statement index it names
Outcome(exc, why, i) == [exc |-> exc, why |-> why, stmt |-> i]

RECURSIVE AbstractScan(_, _, _)
\* the loop of abstract_execution from statement k (1-based) on
AbstractScan(allowed_func, k, defined_vars) ==
    IF k > Len(statements) THEN Outcome("", "", -1)
    ELSE LET stmt == statements[k]
             args == PyItems(stmt.args)
         IN IF stmt.func.kind = "list"
            THEN Outcome("TypeError", "unhashable", k - 1)
            ELSE IF stmt.func.s \notin DOMAIN allowed_func
            THEN Outcome("ExecuteProgramError", "not_allowed", k - 1)
            ELSE IF Len(args) # allowed_func[stmt.func.s]
            THEN Outcome("ExecuteProgramError", "arg_count", k - 1)
            ELSE IF \E m \in 1..Len(args) : StrV(args[m]) \notin defined_vars
            THEN Outcome("ExecuteProgramError", "not_defined", k - 1)
            ELSE AbstractScan(allowed_func, k + 1,
                              defined_vars \cup {stmt.result_var_name})

\* what abstract_execution(allowed_func) does in the current state
AbstractOutcome(allowed_func) ==
    IF ~has_return_statement
    THEN Outcome("ExecuteProgramError", "no_return", -1)
    ELSE AbstractScan(allowed_func, 1,
                      {StrV(program_arg_names[k]) :
                           k \in 1..Len(program_arg_names)})

\* Program.abstract_execution(allowed_func)
abstract_execution(allowed_func) ==
    LET out == AbstractOutcome(allowed_func)
    IN /\ last' = Call("abstract_execution", out.exc, out.why, out.stmt, "")
       /\ UNCHANGED <<statements, variables, last_variable_index,
                      has_return_statement, reutrn_vars_count, allocated>>

\* the allowed-functions tables abstract_execution is called with
AllowedTables == {("add" :> 2 @@ "return" :> 1), ("add" :> 1)}

\* the index arguments the calls are tried with: the default -1 of
\* insert_statement, every position, and one past the last statement
InsertIndexes == -1..Len(statements)
CallIndexes == -1..Len(statements)

----------------------------------------------------------------------------
(* Program objects as values, copy and to_hash *)

\* a Program object: its attributes, and in aliases the names of the
\* attributes that are the very list object the receiver of the calls holds
\* in the attribute of the same name
ProgramObject(name, arg_names, stmts, vrs, index, has_return, return_count) ==
    [program_name |-> name, program_arg_names |-> arg_names,
     statements |-> stmts, variables |-> vrs, last_variable_index |-> index,
     has_return_statement |-> has_return, reutrn_vars_count |-> return_count,
     aliases |-> {}]

\* the Program the calls are made on
Self ==
    ProgramObject(program_name, program_arg_names, statements, variables,
                  last_variable_index, has_return_statement, reutrn_vars_count)

\* copy.deepcopy(stmt): a new Statement with a new argument list
deepcopy(stmt) ==
    [args |-> IF stmt.args.kind = "list"
              THEN ListV([k \in 1..Len(stmt.args.l) |-> stmt.args.l[k]])
              ELSE stmt.args,
     func |-> stmt.func,
     result_var_name |-> stmt.result_var_name]

\* a copy constructed without the parameter names
copy_NoParameters(p) ==
    [ProgramObject(p.program_name, <<>>, <<>>, <<>>, 1, FALSE, 1)
        EXCEPT !.statements = [k \in 1..Len(p.statements) |->
                                  deepcopy(p.statements[k])],
               !.variables = [k \in 1..Len(p.variables) |-> p.variables[k]],
               !.last_variable_index = p.last_variable_index]

\* a copy that takes over the list of variables instead of copying it
copy_SharesVariables(p) ==
    [ProgramObject(p.program_name, p.program_arg_names, <<>>,
                   p.program_arg_names, 1, FALSE, 1)
        EXCEPT !.statements = [k \in 1..Len(p.statements) |->
                                  deepcopy(p.statements[k])],
               !.variables = p.variables,
               !.aliases = {"_variables"},
               !.last_variable_index = p.last_variable_index]

\* Program.copy(): the constructor call with the name and the parameter names
\* (return_vars_count and has_return_statement get their defaults), then new
\* lists of statements and variables and the name counter of p
copy(p) ==
    [ProgramObject(p.program_name, p.program_arg_names, <<>>,
                   p.program_arg_names, 1, FALSE, 1)
        EXCEPT !.statements = [k \in 1..Len(p.statements) |->
                                  deepcopy(p.statements[k])],
               !.variables = [k \in 1..Len(p.variables) |-> p.variables[k]],
               !.last_variable_index = p.last_variable_index]

\* the other Program after a call on the receiver: an attribute that is the
\* receiver's own list object shows what the call did to that list
OtherAfterCall ==
    IF other = <<>> THEN other
    ELSE <<[other[1] EXCEPT
              !.statements = IF "_statements" \in other[1].aliases
                             THEN statements' ELSE @,
              !.variables = IF "_variables" \in other[1].aliases
                            THEN variables' ELSE @]>>

\* repr() of a str, a list of str or None
PyRepr(v) == IF v.kind = "str" THEN "'" \o v.s \o "'" ELSE PyStr(v)

\* repr() of a tuple of str
TupleRepr(q) ==
    IF Len(q) = 1 THEN "('" \o q[1] \o "',)"
    ELSE "(" \o Join([k \in 1..Len(q) |-> "'" \o q[k] \o "'"], ", ") \o ")"

\* f"in{i}"
InName(i) == "in" \o ToString(i)

\* f"v{canonical_counter}"
CanonicalName(n) == "v" \o ToString(n)

\* var_mapping after the loop over program_arg_names; a name that occurs
\* twice keeps the index of its last occurrence
ParamMapping(arg_names) ==
    [key \in {StrV(arg_names[i]) : i \in 1..Len(arg_names)} |->
        LET hits == {i \in 1..Len(arg_names) : arg_names[i] = key.s}
        IN InName((CHOOSE i \in hits : \A m \in hits : m <= i) - 1)]

\* a canonicalization that keeps the name of the variable
Canonicalize_KeepsName(st, key) ==
    IF key \in DOMAIN st.mapping THEN st
    ELSE [mapping |-> st.mapping @@ (key :> PyStr(key)),
          counter |-> st.counter + 1]

\* if key not in var_mapping: var_mapping[key] = f"v{canonical_counter}";
\* canonical_counter += 1
Canonicalize(st, key) ==
    IF key \in DOMAIN st.mapping THEN st
    ELSE [mapping |-> st.mapping @@ (key :> CanonicalName(st.counter)),
          counter |-> st.counter + 1]

RECURSIVE CanonicalizeAll(_, _)
\* the loop of to_hash over the arguments of one statement
CanonicalizeAll(st, keys) ==
    IF keys = <<>> THEN st
    ELSE CanonicalizeAll(Canonicalize(st, keys[1]), Tail(keys))

RECURSIVE CanonicalRepr(_, _, _)
\* the loop of to_hash over the statements from position k (1-based) on: the
\* repr of every tuple (func, canon_args, result_var) appended
CanonicalRepr(stmts, k, st) ==
    IF k > Len(stmts) THEN <<>>
    ELSE LET stmt == stmts[k]
             items == PyItems(stmt.args)
             keys == [m \in 1..Len(items) |-> StrV(items[m])]
             st1 == CanonicalizeAll(st, keys)
             canon_args == [m \in 1..Len(keys) |-> st1.mapping[keys[m]]]
             st2 == Canonicalize(st1, stmt.result_var_name)
             result_var == st2.mapping[stmt.result_var_name]
         IN <<"(" \o PyRepr(stmt.func) \o ", " \o TupleRepr(canon_args)
                  \o ", '" \o result_var \o "')">>
            \o CanonicalRepr(stmts, k + 1, st2)

\* hashlib.sha256(text).hexdigest(): the digest stands for the text it is
\* computed from, two digests are equal exactly when the texts are
sha256(text) == <<"sha256", text>>

\* Program.to_hash()
to_hash(p) ==
    sha256("[" \o Join(CanonicalRepr(p.statements, 1,
                           [mapping |-> ParamMapping(p.program_arg_names),
                            counter |-> 0]), ", ") \o "]")

\* Program.copy() called on the receiver; the calls that follow are made
\* either on the receiver as before or on the new Program
Copy ==
    /\ other = <<>>
    /\ LET new_program == copy(Self)
       IN \/ /\ other' = <<new_program>>
             /\ UNCHANGED <<statements, variables, last_variable_index,
                            has_return_statement, reutrn_vars_count>>
          \/ /\ other' = <<[Self EXCEPT !.aliases = new_program.aliases]>>
             /\ statements' = new_program.statements
             /\ variables' = new_program.variables
             /\ last_variable_index' = new_program.last_variable_index
             /\ has_return_statement' = new_program.has_return_statement
             /\ reutrn_vars_count' = new_program.reutrn_vars_count
    /\ last' = Returned("copy", "Program")
    /\ UNCHANGED allocated
    /\ UNCHANGED evolution_vars

----------------------------------------------------------------------------
(* Mutation strategies (program_searcher.mutation_strategy).  They use three *)
(* accessors of Program that program_model does not define: variables,       *)
(* get_statement(index) and has_return_statement().                          *)

\* Program.variables: the names currently in scope
Variables == variables

\* Program.get_statement(index)
get_statement(index) == statements[index + 1]

\* Program.has_return_statement()
HasReturnStatement == has_return_statement

\* RemoveStatementMutationStrategy.__init__: remove_retries
remove_retries == 3

\* len(program) - (1 if program.has_return_statement() else 0)
max_index == Len(statements) - (IF HasReturnStatement THEN 1 ELSE 0)

\* a variant of Choices that also draws the next name insert_statement would
\* allocate, which is not in scope
Choices_WithUnallocatedName(k) ==
    [1..k -> Range(Variables) \cup {VariableName(last_variable_index)}]

\* random.choices(program.variables, k=k): k draws with replacement
Choices(k) == [1..k -> Range(Variables)]

\* RemoveStatementMutationStrategy.mutate(program).  An attempt that raises
\* RemoveStatementError has changed nothing, so every attempt of the loop
\* finds the state the call started in; the loop ends with the first attempt
\* that returns or raises another exception, which mutate does not catch.
RemoveStatementMutationStrategy_mutate ==
    /\ UNCHANGED <<last_variable_index, has_return_statement,
                   reutrn_vars_count, allocated>>
    /\ IF max_index <= 0
       THEN /\ last' = Returned("RemoveStatementMutationStrategy.mutate", "")
            /\ UNCHANGED <<statements, variables>>
       ELSE \E draws \in [1..remove_retries -> 0..(max_index - 1)] :
              LET ended == {k \in 1..remove_retries :
                               RemoveResult(draws[k]).exc # "RemoveStatementError"}
                  n == IF ended = {} THEN remove_retries
                       ELSE CHOOSE k \in ended : \A m \in ended : k <= m
                  r == RemoveResult(draws[n])
              IN /\ statements' = r.statements
                 /\ variables' = r.variables
                 /\ last' = [Call("RemoveStatementMutationStrategy.mutate",
                                  IF ended = {} THEN "" ELSE r.exc,
                                  IF ended = {} THEN "" ELSE r.why, -1, "")
                                EXCEPT !.calls = n]

\* ReplaceStatementMutationStrategy(available_functions).mutate(program)
ReplaceStatementMutationStrategy_mutate(available_functions) ==
    /\ UNCHANGED <<variables, last_variable_index, has_return_statement,
                   reutrn_vars_count, allocated>>
    /\ last' = Returned("ReplaceStatementMutationStrategy.mutate", "")
    /\ \E func_name \in DOMAIN available_functions :
         LET args_size == available_functions[func_name]
         IN IF Variables = <<>> /\ args_size > 0
            THEN UNCHANGED statements
            ELSE \E args \in Choices(args_size) :
                   IF max_index <= 0
                   THEN UNCHANGED statements
                   ELSE \E replace_index \in 0..(max_index - 1) :
                          statements' =
                              [statements EXCEPT
                                  ![replace_index + 1].func = StrV(func_name),
                                  ![replace_index + 1].args = ListV(args)]

\* a variant of UpdateStatementArgsMutationStrategy.mutate that resamples the
\* arguments of every statement
UpdateStatementArgsMutationStrategy_mutate_EveryStatement ==
    /\ UNCHANGED <<variables, last_variable_index, has_return_statement,
                   reutrn_vars_count, allocated>>
    /\ last' = Returned("UpdateStatementArgsMutationStrategy.mutate", "")
    /\ \E new_args \in [1..Len(statements) -> UNION {Choices(k) : k \in 1..2}] :
          /\ \A k \in 1..Len(statements) :
                 Len(new_args[k]) = PyLen(statements[k].args)
          /\ statements' = [k \in 1..Len(statements) |->
                               [statements[k] EXCEPT !.args = ListV(new_args[k])]]

\* UpdateStatementArgsMutationStrategy.mutate(program)
UpdateStatementArgsMutationStrategy_mutate ==
    /\ UNCHANGED <<variables, last_variable_index, has_return_statement,
                   reutrn_vars_count, allocated>>
    /\ IF Len(statements) = 0
       THEN /\ last' = Returned("UpdateStatementArgsMutationStrategy.mutate", "")
            /\ UNCHANGED statements
       ELSE \E statement_idx \in 0..(Len(statements) - 1) :
              LET statement == get_statement(statement_idx)
                  statement_args_count == PyLen(statement.args)
              IN IF Variables = <<>> /\ statement_args_count > 0
                 THEN /\ last' = Raised("UpdateStatementArgsMutationStrategy.mutate",
                                        "IndexError", "choices")
                      /\ UNCHANGED statements
                 ELSE \E new_args \in Choices(statement_args_count) :
                        /\ statements' = [statements EXCEPT
                               ![statement_idx + 1].args = ListV(new_args)]
                        /\ last' = Returned(
                               "UpdateStatementArgsMutationStrategy.mutate", "")

\* InsertStatement.mutate(program): the body of
\* UpdateStatementArgsMutationStrategy.mutate once more
InsertStatement_mutate ==
    /\ UNCHANGED <<variables, last_variable_index, has_return_statement,
                   reutrn_vars_count, allocated>>
    /\ IF Len(statements) = 0
       THEN /\ last' = Returned("InsertStatement.mutate", "")
            /\ UNCHANGED statements
       ELSE \E statement_idx \in 0..(Len(statements) - 1) :
              LET statement == get_statement(statement_idx)
                  statement_args_count == PyLen(statement.args)
              IN IF Variables = <<>> /\ statement_args_count > 0
                 THEN /\ last' = Raised("InsertStatement.mutate",
                                        "IndexError", "choices")
                      /\ UNCHANGED statements
                 ELSE \E new_args \in Choices(statement_args_count) :
                        /\ statements' = [statements EXCEPT
                               ![statement_idx + 1].args = ListV(new_args)]
                        /\ last' = Returned("InsertStatement.mutate", "")

----------------------------------------------------------------------------
(* Evolution operators (program_searcher.evolution_operator).  A weight is  *)
(* counted in units of 1e-7, so that sums are exact.                        *)

\* 1.0 in units of 1e-7
One == 10000000

\* 1e-6 in units of 1e-7
Tolerance == 10

\* the strategy classes that are the keys of mutation_strategies
Strategies == {"RemoveStatementMutationStrategy",
               "ReplaceStatementMutationStrategy",
               "UpdateStatementArgsMutationStrategy"}

\* the weights a table is built from: -0.1, -0.05, 0, 0.2, 0.3, 0.4999996,
\* 0.5, 0.5000004, 0.500002, 0.6, 0.8, 1.0, 1.0000004 and 1.1
Weights == {-1000000, -500000, 0, 2000000, 3000000, 4999996, 5000000,
            5000004, 5000020, 6000000, 8000000, 10000000, 10000004, 11000000}

\* abs(x)
Abs(x) == IF x < 0 THEN -x ELSE x

\* sum(mutation_strategies.values())
RECURSIVE SumOver(_, _)
SumOver(mutation_strategies, keys) ==
    IF keys = {} THEN 0
    ELSE LET key == CHOOSE k \in keys : TRUE
         IN mutation_strategies[key] +
            SumOver(mutation_strategies, keys \ {key})

\* sum(self.mutation_strategies.values())
Sum(mutation_strategies) ==
    SumOver(mutation_strategies, DOMAIN mutation_strategies)

\* a validation that lets weights above 1 pass
validate_mutation_strategies_NoUpperCheck(mutation_strategies) ==
    IF Abs(Sum(mutation_strategies) - One) > Tolerance THEN "sum"
    ELSE IF \E k \in DOMAIN mutation_strategies : mutation_strategies[k] < 0
    THEN "negative"
    ELSE ""

\* TournamentSelectionOperator._validate_mutation_strategies: the check that
\* raises InvalidMutationStrategiesError, "" when none does
validate_mutation_strategies(mutation_strategies) ==
    IF Abs(Sum(mutation_strategies) - One) > Tolerance THEN "sum"
    ELSE IF \E k \in DOMAIN mutation_strategies : mutation_strategies[k] < 0
    THEN "negative"
    ELSE IF \E k \in DOMAIN mutation_strategies : mutation_strategies[k] > One
    THEN "above_one"
    ELSE ""

\* TournamentSelectionOperator(tournament_size, mutation_strategies): the
\* attributes are assigned, then the weights are validated; when that raises
\* the caller gets no object
TournamentSelectionOperator_init(tournament_size, mutation_strategies) ==
    LET why == validate_mutation_strategies(mutation_strategies)
        args == <<tournament_size, mutation_strategies>>
    IN /\ IF why # ""
          THEN /\ last' = [Raised("TournamentSelectionOperator.__init__",
                                  "InvalidMutationStrategiesError", why)
                             EXCEPT !.args = args]
               /\ UNCHANGED operator
          ELSE /\ last' = [Returned("TournamentSelectionOperator.__init__",
                                    "TournamentSelectionOperator")
                             EXCEPT !.args = args]
               /\ operator' =
                      <<[tournament_size |-> tournament_size,
                         mutation_strategies |-> mutation_strategies]>>
       /\ UNCHANGED <<statements, variables, last_variable_index,
                      has_return_statement, reutrn_vars_count, allocated,
                      other, population, fitnesses, objects, search>>

\* FullPopulationMutationOperator(mutation_strategies): the table is stored
FullPopulationMutationOperator_init(mutation_strategies) ==
    /\ last' = [Returned("FullPopulationMutationOperator.__init__",
                         "FullPopulationMutationOperator")
                    EXCEPT !.args = <<mutation_strategies>>]
    /\ operator' = <<[mutation_strategies |-> mutation_strategies]>>
    /\ UNCHANGED <<statements, variables, last_variable_index,
                   has_return_statement, reutrn_vars_count, allocated,
                   other, population, fitnesses, objects, search>>

\* the number that stands for None in a population slot
NoneObject == 0

\* the result of a call on a Program object: the exception raised ("" for
\* none) and the object as the call left it
CallResult(exc, p) == [exc |-> exc, program |-> p]

\* the smallest element of a non-empty set of numbers
Min(S) == CHOOSE k \in S : \A m \in S : k <= m

\* program.remove_statement(index) on the Program object p
remove_statement_on(p, index) ==
    IF p.statements = <<>> THEN CallResult("RemoveStatementError", p)
    ELSE IF index < 0 \/ index > Len(p.statements) - 1
    THEN CallResult("InvalidStatementIndexError", p)
    ELSE
      LET stmt_to_remove == p.statements[index + 1]
          name == stmt_to_remove.result_var_name
          hits == {k \in 1..Len(p.statements) :
                      \/ PyInRaises(name, p.statements[k].args)
                      \/ PyIn(name, p.statements[k].args)}
          equal == {k \in 1..Len(p.statements) :
                       StatementEq(p.statements[k], stmt_to_remove)}
          pos == IF name.kind = "str" THEN FirstIndexOf(p.variables, name.s)
                 ELSE 0
          removed == [p EXCEPT !.statements = DeleteAt(@, Min(equal))]
      IN IF hits # {}
         THEN IF PyInRaises(name, p.statements[Min(hits)].args)
              THEN CallResult("TypeError", p)
              ELSE CallResult("RemoveStatementError", p)
         ELSE IF pos = 0 THEN CallResult("ValueError", removed)
         ELSE CallResult("", [removed EXCEPT !.variables = DeleteAt(@, pos)])

\* Program.variables of the Program object p
variables_of(p) == p.variables

\* Program.get_statement(index) of the Program object p
get_statement_of(p, index) == p.statements[index + 1]

\* Program.has_return_statement() of the Program object p
has_return_statement_of(p) == p.has_return_statement

\* RemoveStatementMutationStrategy.mutate(program) on the Program object p:
\* the results it can have.  An attempt that raises RemoveStatementError
\* has changed nothing; the first other attempt decides.
RemoveStatementMutationStrategy_mutate_on(p) ==
    LET bound == Len(p.statements) -
                     (IF has_return_statement_of(p) THEN 1 ELSE 0)
    IN IF bound <= 0 THEN {CallResult("", p)}
       ELSE {LET ended == {k \in 1..remove_retries :
                              remove_statement_on(p, draws[k]).exc #
                                  "RemoveStatementError"}
             IN IF ended = {} THEN CallResult("", p)
                ELSE remove_statement_on(p, draws[Min(ended)]) :
             draws \in [1..remove_retries -> 0..(bound - 1)]}

\* UpdateStatementArgsMutationStrategy.mutate(program) on the Program
\* object p: the results it can have
UpdateStatementArgsMutationStrategy_mutate_on(p) ==
    IF Len(p.statements) = 0 THEN {CallResult("", p)}
    ELSE UNION {
           LET statement == get_statement_of(p, statement_idx)
               statement_args_count == PyLen(statement.args)
           IN IF variables_of(p) = <<>> /\ statement_args_count > 0
              THEN {CallResult("IndexError", p)}
              ELSE {CallResult("", [p EXCEPT
                        !.statements[statement_idx + 1].args = ListV(new_args)]) :
                    new_args \in [1..statement_args_count ->
                                     Range(variables_of(p))]} :
           statement_idx \in 0..(Len(p.statements) - 1)}

\* chosen_strategy.mutate(program) for the object numbered id among the
\* objects objs: the results it can have; len(None) raises TypeError
mutate(chosen_strategy, id, objs) ==
    IF id = NoneObject THEN {CallResult("TypeError", NoneV)}
    ELSE IF chosen_strategy = "RemoveStatementMutationStrategy"
    THEN RemoveStatementMutationStrategy_mutate_on(objs[id])
    ELSE UpdateStatementArgsMutationStrategy_mutate_on(objs[id])

\* random.choices(strategies, weights=weights, k=1)[0]: a strategy of
\* positive weight
ChosenStrategies(mutation_strategies) ==
    {k \in DOMAIN mutation_strategies : mutation_strategies[k] > 0}

\* the objects after an in-place change of the object numbered id, without
\* the objects that neither the population pop nor the fitness map fit
\* refers to any more
ObjectsAfter(id, p, pop, fit) ==
    LET live == (Range(pop) \cup DOMAIN fit) \ {NoneObject}
    IN [k \in live |-> IF k = id THEN p ELSE objects[k]]

\* a pop that leaves the entry in the map
DictPop_KeepsEntry(fit, key) == fit

\* fitnesses.pop(program)
DictPop(fit, key) == [k \in DOMAIN fit \ {key} |-> fit[k]]

\* max(tournament_programs, key=lambda prog: fitnesses[prog]): the first of
\* the drawn programs with the largest fitness
TournamentWinner(tournament_programs) ==
    LET best == {k \in 1..Len(tournament_programs) :
                    \A m \in 1..Len(tournament_programs) :
                        fitnesses[tournament_programs[m]] <=
                            fitnesses[tournament_programs[k]]}
    IN tournament_programs[Min(best)]

\* the program variables, which an evolution operator does not use
program_vars == <<statements, variables, last_variable_index,
                  has_return_statement, reutrn_vars_count, allocated, other>>

\* TournamentSelectionOperator.apply(population, fitnesses).  The call
\* record keeps the drawn winner and the evicted head as its arguments.
\* random.choices raises IndexError on an empty population unless k is 0;
\* with k = 0 it returns [] and max raises ValueError.
TournamentSelectionOperator_apply ==
    LET op == "TournamentSelectionOperator.apply"
        self == operator[1]
        Ends(exc, why, a) == [Call(op, exc, why, -1, "") EXCEPT !.args = a]
    IN
    /\ operator # <<>>
    /\ UNCHANGED <<program_vars, operator, search>>
    /\ IF population = <<>> /\ self.tournament_size > 0
       THEN /\ last' = Ends("IndexError", "choices", <<>>)
            /\ UNCHANGED <<population, fitnesses, objects>>
       ELSE \E draws \in [1..self.tournament_size -> 1..Len(population)] :
         LET tournament_programs ==
                 [k \in 1..self.tournament_size |-> population[draws[k]]]
         IN IF tournament_programs = <<>>
            THEN /\ last' = Ends("ValueError", "max", <<>>)
                 /\ UNCHANGED <<population, fitnesses, objects>>
            ELSE IF \E k \in 1..Len(tournament_programs) :
                       tournament_programs[k] \notin DOMAIN fitnesses
            THEN /\ last' = Ends("KeyError", "fitnesses[prog]", <<>>)
                 /\ UNCHANGED <<population, fitnesses, objects>>
            ELSE
              LET tournament_winner == TournamentWinner(tournament_programs)
                  program == Head(population)
                  popped == Tail(population)
                  a == <<tournament_winner, program>>
              IN IF program \notin DOMAIN fitnesses
                 THEN /\ last' = Ends("KeyError", "fitnesses.pop", a)
                      /\ population' = popped
                      /\ UNCHANGED fitnesses
                      /\ objects' = ObjectsAfter(NoneObject, NoneV, popped,
                                                 fitnesses)
                 ELSE
                   \E chosen_strategy \in
                          ChosenStrategies(self.mutation_strategies) :
                     \E r \in mutate(chosen_strategy, tournament_winner, objects) :
                       LET mutated_program == NoneObject
                           left == IF r.exc = "" THEN
                                       Append(popped, mutated_program)
                                   ELSE popped
                       IN /\ population' = left
                          /\ fitnesses' = DictPop(fitnesses, program)
                          /\ objects' = ObjectsAfter(tournament_winner,
                                             r.program, left, fitnesses')
                          /\ last' = Ends(r.exc, IF r.exc = "" THEN ""
                                                 ELSE chosen_strategy, a)

\* the loop of FullPopulationMutationOperator.apply over the slots 1..k:
\* one record [exc, population, objects] for every way it can go.  mutate
\* changes the object in place and returns None, which is stored in the
\* slot; a mutate that raises ends the loop.
RECURSIVE FullPopulationLoop(_, _)
FullPopulationLoop(mutation_strategies, k) ==
    IF k = 0
    THEN {[exc |-> "", population |-> population, objects |-> objects]}
    ELSE UNION {
           IF before.exc # "" THEN {before}
           ELSE LET program == before.population[k]
                IN {[exc |-> mutated.exc,
                     population |->
                         IF mutated.exc # "" THEN before.population
                         ELSE [before.population EXCEPT ![k] = NoneObject],
                     objects |->
                         IF program = NoneObject THEN before.objects
                         ELSE [before.objects EXCEPT
                                  ![program] = mutated.program]] :
                    mutated \in UNION {
                        mutate(chosen_strategy, program, before.objects) :
                        chosen_strategy \in
                            ChosenStrategies(mutation_strategies)}} :
           before \in FullPopulationLoop(mutation_strategies, k - 1)}

\* FullPopulationMutationOperator.apply(population, fitnesses)
FullPopulationMutationOperator_apply ==
    /\ operator # <<>>
    /\ UNCHANGED <<program_vars, operator, search, fitnesses>>
    /\ \E after \in FullPopulationLoop(operator[1].mutation_strategies,
                                        Len(population)) :
          /\ population' = after.population
          /\ objects' = [k \in (Range(after.population) \cup DOMAIN fitnesses)
                                  \ {NoneObject} |-> after.objects[k]]
          /\ last' = Call("FullPopulationMutationOperator.apply", after.exc,
                          "", -1, "")

----------------------------------------------------------------------------
(* ProgramSearch (program_search.py).  The stop condition and the exception *)
(* class InvalidProgramSearchArgumentValue are imported by program_search   *)
(* and by its tests from modules the sources do not hold; the stop          *)
(* condition is the MaxStepsStopCondition of the tests: is_met() when       *)
(* step() was called max_steps times.                                       *)

\* MaxStepsStopCondition(max_steps)
MaxStepsStopCondition(max_steps) == [max_steps |-> max_steps, steps |-> 0]

\* stop_condition.is_met()
is_met(stop_condition) == stop_condition.steps >= stop_condition.max_steps

\* stop_condition.step()
step(stop_condition) ==
    [stop_condition EXCEPT !.steps = stop_condition.steps + 1]

\* a validation that lets a tournament larger than the population pass
validate_arguments_NoTournamentAbovePopulation(self) ==
    IF self.min_program_statements > self.max_program_statements
    THEN "min_program_statements"
    ELSE IF self.pop_size < 0 THEN "pop_size"
    ELSE IF self.tournament_size < 0 THEN "tournament_size"
    ELSE IF self.replace_arg_for_const_prob < 0
            \/ self.replace_arg_for_const_prob > One
    THEN "replace_arg_for_const_prob"
    ELSE IF Abs(Sum(self.mutation_strategies) - One) > Tolerance THEN "sum"
    ELSE IF \E k \in DOMAIN self.mutation_strategies :
                self.mutation_strategies[k] < 0
    THEN "negative"
    ELSE IF \E k \in DOMAIN self.mutation_strategies :
                self.mutation_strategies[k] > One
    THEN "above_one"
    ELSE ""

\* ProgramSearch._validate_arguments: the check that raises
\* InvalidProgramSearchArgumentValue, "" when none does
validate_arguments(self) ==
    IF self.min_program_statements > self.max_program_statements
    THEN "min_program_statements"
    ELSE IF self.pop_size < 0 THEN "pop_size"
    ELSE IF self.tournament_size < 0 THEN "tournament_size"
    ELSE IF self.tournament_size > self.pop_size THEN "tournament_above_pop"
    ELSE IF self.replace_arg_for_const_prob < 0
            \/ self.replace_arg_for_const_prob > One
    THEN "replace_arg_for_const_prob"
    ELSE IF Abs(Sum(self.mutation_strategies) - One) > Tolerance THEN "sum"
    ELSE IF \E k \in DOMAIN self.mutation_strategies :
                self.mutation_strategies[k] < 0
    THEN "negative"
    ELSE IF \E k \in DOMAIN self.mutation_strategies :
                self.mutation_strategies[k] > One
    THEN "above_one"
    ELSE ""

\* the config dict of a ProgramSearch with the four keys that are validated
Config(pop_size, tournament_size, prob, mutation_strategies) ==
    [pop_size |-> pop_size, tournament_size |-> tournament_size,
     replace_arg_for_const_prob |-> prob,
     mutation_strategies |-> mutation_strategies]

\* the ProgramSearch the assignments of __init__ build; pc is the position
\* of search() and trace the calls search() has made
ProgramSearchObject(stop_condition, min_statements, max_statements, config) ==
    [stop_condition |-> stop_condition,
     min_program_statements |-> min_statements,
     max_program_statements |-> max_statements,
     pop_size |-> config.pop_size,
     tournament_size |-> config.tournament_size,
     replace_arg_for_const_prob |-> config.replace_arg_for_const_prob,
     mutation_strategies |-> config.mutation_strategies,
     best_program |-> NoneObject,
     best_program_fitness |-> NoneObject,
     steps_counter |-> 0,
     pc |-> "idle",
     trace |-> <<>>]

\* ProgramSearch(..., stop_condition, ..., min_program_statements,
\* max_program_statements, config): the attributes are assigned, then
\* _validate_arguments runs; when that raises the caller gets no object
ProgramSearch_init(stop_condition, min_statements, max_statements, config) ==
    LET self == ProgramSearchObject(stop_condition, min_statements,
                                    max_statements, config)
        why == validate_arguments(self)
        args == <<min_statements, max_statements, config.pop_size,
                  config.tournament_size, config.replace_arg_for_const_prob,
                  config.mutation_strategies>>
    IN /\ IF why # ""
          THEN /\ last' = [Raised("ProgramSearch.__init__",
                                  "InvalidProgramSearchArgumentValue", why)
                             EXCEPT !.args = args]
               /\ UNCHANGED search
          ELSE /\ last' = [Returned("ProgramSearch.__init__", "ProgramSearch")
                             EXCEPT !.args = args]
               /\ search' = <<self>>
       /\ UNCHANGED <<program_vars, population, fitnesses, objects, operator>>

\* ProgramSearch.search(): steps_counter is set, _initialize_population
\* (a pass) is called and the stop condition is asked.  When it is met the
\* loop is skipped and the method ends without a return statement, so the
\* caller gets None.  When it is not met the first statement of the body,
\* Step(step=self.step), reads an attribute no ProgramSearch has and raises
\* AttributeError before any phase of the generation runs.
ProgramSearch_search ==
    /\ search # <<>>
    /\ search[1].pc = "idle"
    /\ LET self == search[1]
           asked == [self EXCEPT !.steps_counter = 1,
                                 !.trace = <<"_initialize_population",
                                             "is_met">>]
       IN IF is_met(self.stop_condition)
          THEN /\ search' = <<[asked EXCEPT !.pc = "returned"]>>
               /\ last' = Returned("ProgramSearch.search", "None")
          ELSE /\ search' = <<[asked EXCEPT !.pc = "raised"]>>
               /\ last' = Raised("ProgramSearch.search", "AttributeError",
                                 "step")
    /\ UNCHANGED <<program_vars, population, fitnesses, objects, operator>>

----------------------------------------------------------------------------
(* The calls and the specifications *)

\* the literal constants a const statement is inserted with
Literals == {"1", "2"}

Insert == /\ \E args \in ArgLists, func \in Funcs, index \in InsertIndexes :
                 insert_statement(args, func, index)
          /\ other' = OtherAfterCall /\ UNCHANGED evolution_vars

\* insert_statement with a const statement of one literal
InsertConst == /\ \E value \in Literals, index \in InsertIndexes :
                      insert_statement(<<value>>, CONST_KEYWORD, index)
               /\ other' = OtherAfterCall /\ UNCHANGED evolution_vars

\* the program that is built before copy() is called: the add statement of
\* test_copy_creates_independent_program and a return statement after it
BuiltStatements ==
    <<[args |-> <<"a", "b">>, func |-> "add"],
      [args |-> <<"x1">>, func |-> RETURN_KEYWORD]>>

\* insert_statement with the next statement of that program, appended
Build == /\ other = <<>>
         /\ Len(statements) < Len(BuiltStatements)
         /\ LET statement == BuiltStatements[Len(statements) + 1]
            IN insert_statement(statement.args, statement.func, -1)
         /\ other' = OtherAfterCall /\ UNCHANGED evolution_vars

Remove == /\ \E index \in CallIndexes : remove_statement(index)
          /\ other' = OtherAfterCall /\ UNCHANGED evolution_vars

Replace == /\ \E index \in CallIndexes, new_func \in Funcs,
                 new_args \in ArgLists :
                     update_statement_full(index, new_func, new_args)
           /\ other' = OtherAfterCall /\ UNCHANGED evolution_vars

UpdateArgs == /\ \E index \in CallIndexes, new_args \in ArgLists :
                     update_statment_args(index, new_args)
              /\ other' = OtherAfterCall /\ UNCHANGED evolution_vars

Render == generate_code /\ other' = OtherAfterCall /\ UNCHANGED evolution_vars

AbstractCheck == /\ \E allowed_func \in AllowedTables :
                        abstract_execution(allowed_func)
                 /\ other' = OtherAfterCall /\ UNCHANGED evolution_vars

Next == Insert \/ Remove \/ Replace \/ UpdateArgs \/ Render \/ AbstractCheck

Spec == Init /\ [][Next]_vars

\* the program under insert, remove, replace and update calls only
NextEdit == Insert \/ Remove \/ Replace \/ UpdateArgs

\* Program(name, arg_names) with the default return_vars_count
InitDefault == Init /\ reutrn_vars_count = 1

SpecEdit == InitDefault /\ [][NextEdit]_vars

\* the edit calls, with const statements of a literal among the inserts
NextConst == Insert \/ InsertConst \/ Remove \/ Replace \/ UpdateArgs

SpecConst == InitDefault /\ [][NextConst]_vars

\* a program is built by appending statements and copied once; then come
\* the edit calls on one of the two programs
NextCopy ==
    \/ Build
    \/ Copy
    \/ other # <<>> /\ Insert
    \/ other # <<>> /\ Remove
    \/ other # <<>> /\ Replace
    \/ other # <<>> /\ UpdateArgs

SpecCopy == InitDefault /\ [][NextCopy]_vars

MutateRemove == RemoveStatementMutationStrategy_mutate /\ other' = OtherAfterCall /\ UNCHANGED evolution_vars

\* the table of available functions is one of the allowed-functions tables
MutateReplace == /\ \E available_functions \in AllowedTables :
                        ReplaceStatementMutationStrategy_mutate(available_functions)
                 /\ other' = OtherAfterCall /\ UNCHANGED evolution_vars

MutateUpdateArgs ==
    UpdateStatementArgsMutationStrategy_mutate /\ other' = OtherAfterCall /\ UNCHANGED evolution_vars

MutateInsert == InsertStatement_mutate /\ other' = OtherAfterCall /\ UNCHANGED evolution_vars

\* a program built by insert calls and mutated by the four strategies
NextMutate ==
    Insert \/ MutateRemove \/ MutateReplace \/ MutateUpdateArgs \/ MutateInsert

SpecMutate == InitDefault /\ [][NextMutate]_vars

\* the program of BuiltStatements, built by insert calls, under remove calls
\* and under the two strategies that resample arguments
NextResample == Build \/ Remove \/ MutateReplace \/ MutateUpdateArgs

SpecResample == InitDefault /\ [][NextResample]_vars

\* the tournament sizes an operator is constructed with
TournamentSizes == {1, 2}

\* one operator is constructed from any table of weights
Construct ==
    /\ last.op = "__init__"
    /\ \E tournament_size \in TournamentSizes,
       mutation_strategies \in [Strategies -> Weights] :
        TournamentSelectionOperator_init(tournament_size, mutation_strategies)

SpecOperator == InitDefault /\ [][Construct]_vars

\* one full-population operator is constructed from any table of weights
ConstructFullPopulation ==
    /\ last.op = "__init__"
    /\ \E mutation_strategies \in [Strategies -> Weights] :
          FullPopulationMutationOperator_init(mutation_strategies)

SpecFullPopulationOperator == InitDefault /\ [][ConstructFullPopulation]_vars

\* _DEFAULT_MUTATION_STRATEGIES of program_search: both weights 1/2
DefaultMutationStrategies ==
    "UpdateStatementArgsMutationStrategy" :> 5000000 @@
    "RemoveStatementMutationStrategy" :> 5000000

\* a statement as insert_statement leaves it: with its result variable
Inserted(args, func, k) ==
    [Statement(ListV(args), StrV(func))
        EXCEPT !.result_var_name = StrV(VariableName(k))]

\* the three Programs the population starts with: x1=add(a,b) followed by
\* return x1, a Program without statements, and x1=add(a,b) followed by
\* x2=add(a,b); the statements are as two insert_statement calls leave them
InitialPrograms ==
    <<ProgramObject(program_name, program_arg_names,
                    <<Inserted(<<"a", "b">>, "add", 1),
                      Inserted(<<"x1">>, RETURN_KEYWORD, 2)>>,
                    program_arg_names \o <<VariableName(1), VariableName(2)>>,
                    3, TRUE, 1),
      ProgramObject(program_name, program_arg_names, <<>>,
                    program_arg_names, 1, FALSE, 1),
      ProgramObject(program_name, program_arg_names,
                    <<Inserted(<<"a", "b">>, "add", 1),
                      Inserted(<<"a", "b">>, "add", 2)>>,
                    program_arg_names \o <<VariableName(1), VariableName(2)>>,
                    3, FALSE, 1)>>

\* the fitness values evaluate_program_func returns
FitnessValues == {1, 2}

\* a population of the three Programs, every one with a fitness in the map
InitPopulation ==
    /\ statements = <<>>
    /\ variables = program_arg_names
    /\ last_variable_index = 1
    /\ has_return_statement = FALSE
    /\ reutrn_vars_count = 1
    /\ allocated = <<>>
    /\ last = Returned("__init__", "")
    /\ other = <<>>
    /\ search = <<>>
    /\ objects = InitialPrograms
    /\ population = [k \in DOMAIN InitialPrograms |-> k]
    /\ fitnesses \in [DOMAIN InitialPrograms -> FitnessValues]

\* a tournament operator with the default strategies
InitTournament ==
    /\ InitPopulation
    /\ \E tournament_size \in TournamentSizes :
          operator = <<[tournament_size |-> tournament_size,
                        mutation_strategies |-> DefaultMutationStrategies]>>

Tournament == TournamentSelectionOperator_apply

\* generations of tournament selection on the population
SpecTournament == InitTournament /\ [][Tournament]_vars

\* a full-population operator with the default strategies
InitFullPopulation ==
    /\ InitPopulation
    /\ operator = <<[mutation_strategies |-> DefaultMutationStrategies]>>

FullPopulation == FullPopulationMutationOperator_apply

\* generations of full-population mutation on the population
SpecFullPopulation == InitFullPopulation /\ [][FullPopulation]_vars

\* the keys of the mutation_strategies of a ProgramSearch
SearchStrategies == {"RemoveStatementMutationStrategy",
                     "UpdateStatementArgsMutationStrategy"}

\* (min_program_statements, max_program_statements) of a ProgramSearch
StatementLimits == {<<1, 5>>, <<5, 5>>, <<6, 5>>}

\* pop_size and tournament_size of a ProgramSearch
PopSizes == {-1, 0, 1, 2}
SearchTournamentSizes == {-1, 0, 1, 2, 3}

\* replace_arg_for_const_prob: -0.1, 0, 0.25, 1.0 and 1.1
Probabilities == {-1000000, 0, 2500000, 10000000, 11000000}

\* the max_steps of the stop condition
MaxSteps == {0, 1, 2}

\* one ProgramSearch is constructed from any arguments
ConstructSearch ==
    /\ last.op = "__init__"
    /\ \E limits \in StatementLimits, pop_size \in PopSizes,
          tournament_size \in SearchTournamentSizes,
          replace_arg_for_const_prob \in Probabilities,
          mutation_strategies \in [SearchStrategies -> Weights] :
             ProgramSearch_init(MaxStepsStopCondition(0), limits[1],
                                limits[2],
                                Config(pop_size, tournament_size,
                                       replace_arg_for_const_prob,
                                       mutation_strategies))

SpecSearchConstruction == InitDefault /\ [][ConstructSearch]_vars

\* one ProgramSearch is constructed with the default strategies and a stop
\* condition that is met after max_steps generations
ConstructSearchWithStopCondition ==
    /\ last.op = "__init__"
    /\ \E max_steps \in MaxSteps, limits \in StatementLimits,
          pop_size \in PopSizes, tournament_size \in SearchTournamentSizes,
          replace_arg_for_const_prob \in Probabilities :
             ProgramSearch_init(MaxStepsStopCondition(max_steps), limits[1],
                                limits[2],
                                Config(pop_size, tournament_size,
                                       replace_arg_for_const_prob,
                                       DefaultMutationStrategies))

Search == ProgramSearch_search

\* a ProgramSearch is constructed and search() is called on it
SpecSearch == InitDefault /\ [][ConstructSearchWithStopCondition \/ Search]_vars

\* the (pop_size, tournament_size) pairs _validate_arguments accepts, up to
\* the number of initial programs
AcceptedSizes ==
    {sizes \in (0..Len(InitialPrograms)) \X (0..Len(InitialPrograms)) :
        validate_arguments(ProgramSearchObject(MaxStepsStopCondition(0),
            1, 5, Config(sizes[1], sizes[2], 2500000,
                         DefaultMutationStrategies))) = ""}

\* a ProgramSearch with accepted sizes, a population of pop_size programs
\* that all have a fitness, and a tournament operator of its tournament_size
InitAccepted ==
    /\ statements = <<>>
    /\ variables = program_arg_names
    /\ last_variable_index = 1
    /\ has_return_statement = FALSE
    /\ reutrn_vars_count = 1
    /\ allocated = <<>>
    /\ last = Returned("__init__", "")
    /\ other = <<>>
    /\ \E sizes \in AcceptedSizes :
          /\ search = <<ProgramSearchObject(MaxStepsStopCondition(0), 1, 5,
                            Config(sizes[1], sizes[2], 2500000,
                                   DefaultMutationStrategies))>>
          /\ objects = SubSeq(InitialPrograms, 1, sizes[1])
          /\ population = [k \in 1..sizes[1] |-> k]
          /\ fitnesses \in [1..sizes[1] -> FitnessValues]
          /\ operator = <<[tournament_size |-> sizes[2],
                           mutation_strategies |-> DefaultMutationStrategies]>>

\* generations of tournament selection with every accepted configuration
SpecAcceptedTournament == InitAccepted /\ [][Tournament]_vars

\* the lists of parameter names a Program is constructed with
ParameterNames == {<<"a", "b">>, <<"a">>, <<"x1">>, <<"x1", "x2">>,
                   <<"b", "x2">>}

\* Program(name, arg_names) with any of the lists of parameter names: the
\* constructor copies the list into the variables; insert_statement and
\* remove_statement read the variables only
InitParameters ==
    /\ statements = <<>>
    /\ variables \in ParameterNames
    /\ last_variable_index = 1
    /\ has_return_statement = FALSE
    /\ reutrn_vars_count = 1
    /\ allocated = <<>>
    /\ last = Returned("__init__", "")
    /\ other = <<>>
    /\ population = <<>>
    /\ fitnesses = <<>>
    /\ objects = <<>>
    /\ operator = <<>>
    /\ search = <<>>

\* inserts and removes on a program with any parameter names
SpecParameters == InitParameters /\ [][Insert \/ Remove]_vars

----------------------------------------------------------------------------
(* Properties of remove_statement *)

\* the result variable of the statement at 0-based position i
ResultAt(i) == statements[i + 1].result_var_name

\* a statement at another 0-based position j # i has the result variable of
\* statement i among the items of its argument list
ReferencedByOther(i) ==
    \E j \in 0..(Len(statements) - 1) :
        /\ j # i
        /\ statements[j + 1].args.kind = "list"
        /\ ResultAt(i).kind = "str"
        /\ ResultAt(i).s \in Range(statements[j + 1].args.l)

\* C1: on a non-empty program and a valid index i, remove(i) raises the
\* dependency error if and only if a statement at another position has the
\* result variable of statement i among its arguments.
C1_DependencyErrorIffReferencedByOther ==
    [][\A i \in CallIndexes :
          (remove_statement(i) /\ statements # <<>> /\ ~IndexRaises(i)) =>
              ((last'.exc = "RemoveStatementError" /\ last'.why = "still_referenced")
                  <=> ReferencedByOther(i))]_vars

\* C2: a remove(i) that succeeds leaves the old statement sequence with
\* exactly the element at position i deleted, and the variables with exactly
\* the result variable of that statement deleted.
C2_RemoveDeletesExactlyStatementI ==
    [][\A i \in CallIndexes :
          (remove_statement(i) /\ last'.exc = "") =>
              /\ statements' = DeleteAt(statements, i + 1)
              /\ \E k \in 1..Len(variables) :
                     /\ StrV(variables[k]) = ResultAt(i)
                     /\ variables' = DeleteAt(variables, k)]_vars

\* the result variables of the statements currently in the program
ResultNames ==
    {statements[k].result_var_name.s :
        k \in {m \in 1..Len(statements) :
                  statements[m].result_var_name.kind = "str"}}

\* C3: in every state reached by insert, remove, replace and update calls
\* the variables are exactly the input parameters together with the result
\* variables of the statements currently in the program.
C3_VariablesAreParamsAndResults ==
    Range(variables) = Range(program_arg_names) \cup ResultNames

\* C4: the k of the names x<k> allocated by insert are strictly increasing,
\* every statement carries a name allocated by an insert, and no two
\* statements of the program share a result variable.
C4_NamesStrictlyIncreasingNeverReused ==
    /\ \A m, n \in 1..Len(allocated) : m < n => allocated[m] < allocated[n]
    /\ \A m \in 1..Len(statements) :
           \E n \in 1..Len(allocated) :
               statements[m].result_var_name = StrV(VariableName(allocated[n]))
    /\ \A m, n \in 1..Len(statements) :
           m # n => statements[m].result_var_name # statements[n].result_var_name

\* C4 witness: x1 was allocated and freed by a removal, and the insert after
\* it allocated x2: the program holds one statement, named x2.
C4_Witness ==
    /\ allocated = <<1, 2>>
    /\ Len(statements) = 1
    /\ statements[1].result_var_name = StrV("x2")
    /\ "x1" \notin Range(variables)
    /\ last.op = "insert_statement"

\* C5: remove on an empty program or with an index outside [0, len-1] raises,
\* and every remove that raises leaves the statements, the variables, the name
\* counter and has_return unchanged.
C5_FailingRemoveChangesNothing ==
    [][\A i \in CallIndexes :
          remove_statement(i) =>
              /\ (statements = <<>> \/ IndexRaises(i)) => last'.exc # ""
              /\ last'.exc # "" =>
                     UNCHANGED <<statements, variables, last_variable_index,
                                 has_return_statement>>]_vars

----------------------------------------------------------------------------
(* Properties of update_statment_args and update_statement_full *)

\* every statement but the one at 0-based position i is the same after the step
OthersUnchanged(i) ==
    /\ Len(statements') = Len(statements)
    /\ \A k \in 1..Len(statements) : k # i + 1 => statements'[k] = statements[k]

\* C6: with a valid index, update_arguments raises the arity-mismatch error
\* exactly when the number of new arguments differs from the argument count
\* of statement i, and then changes nothing; otherwise only the argument list
\* of statement i changes.
C6_UpdateArgumentsArityAndFrame ==
    [][\A i \in CallIndexes : \A new_args \in ArgLists :
          (/\ last'.op = "update_statment_args"
           /\ ~IndexRaises(i)
           /\ update_statment_args(i, new_args)) =>
              LET mismatch == PyLen(statements[i + 1].args) # Len(new_args)
              IN /\ (last'.exc = "UpdateStatementArgumentsError") <=> mismatch
                 /\ mismatch => UNCHANGED <<statements, variables,
                                            last_variable_index,
                                            has_return_statement>>
                 /\ ~mismatch =>
                        /\ last'.exc = ""
                        /\ statements'[i + 1].args = ListV(new_args)
                        /\ statements'[i + 1].func = statements[i + 1].func
                        /\ statements'[i + 1].result_var_name = ResultAt(i)
                        /\ OthersUnchanged(i)
                        /\ UNCHANGED <<variables, last_variable_index>>]_vars

\* C6 witness: an update went through on a program of two statements, and one
\* of them now has arguments that differ from those of the other
C6_Witness ==
    /\ last.op = "update_statment_args"
    /\ last.exc = ""
    /\ Len(statements) = 2
    /\ statements[1].args # statements[2].args

\* C7: with a valid index, replace_statement sets the function and the
\* arguments of statement i and leaves its result variable, the other
\* statements, their number and order and the variables unchanged; on an
\* empty program or an invalid index it raises and changes nothing.
C7_ReplaceStatementFrame ==
    [][\A i \in CallIndexes : \A new_func \in Funcs : \A new_args \in ArgLists :
          (/\ last'.op = "update_statement_full"
           /\ update_statement_full(i, new_func, new_args)) =>
              IF statements = <<>> \/ IndexRaises(i)
              THEN /\ last'.exc # ""
                   /\ UNCHANGED <<statements, variables, last_variable_index,
                                  has_return_statement>>
              ELSE /\ last'.exc = ""
                   /\ statements'[i + 1].func = StrV(new_func)
                   /\ statements'[i + 1].args = ListV(new_args)
                   /\ statements'[i + 1].result_var_name = ResultAt(i)
                   /\ OthersUnchanged(i)
                   /\ UNCHANGED variables]_vars

\* C7 witness: a replacement went through on a program of two statements
\* that now differ in their function
C7_Witness ==
    /\ last.op = "update_statement_full"
    /\ last.exc = ""
    /\ Len(statements) = 2
    /\ statements[1].func # statements[2].func

----------------------------------------------------------------------------
(* Properties of generate_code *)

\* some statement of the program has the return marker as its function
ContainsReturnStatement ==
    \E k \in 1..Len(statements) : statements[k].func = StrV(RETURN_KEYWORD)

\* C8: render is idempotent: a render that directly follows a render returns
\* the same text and leaves the statement sequence as it is.
C8_RenderTwiceSameTextSameStatements ==
    [][(last.op = "generate_code" /\ generate_code) =>
          (last'.result = last.result /\ statements' = statements)]_vars

\* C9: render on a program without a return statement appends exactly one
\* statement, whose function is the return marker and whose arguments are the
\* last return_count variables, and sets has_return; on a program that has a
\* return statement it appends nothing.
C9_RenderAppendsOneReturnStatement ==
    [][generate_code =>
          IF ContainsReturnStatement
          THEN statements' = statements
          ELSE LET n == Len(statements)
                   m == Len(variables)
                   appended == statements'[n + 1]
               IN /\ Len(statements') = n + 1
                  /\ SubSeq(statements', 1, n) = statements
                  /\ appended.func = StrV(RETURN_KEYWORD)
                  /\ appended.args.kind = "list"
                  /\ Len(appended.args.l) = reutrn_vars_count
                  /\ m >= reutrn_vars_count
                  /\ \A k \in 1..reutrn_vars_count :
                         appended.args.l[k] = variables[m - reutrn_vars_count + k]
                  /\ has_return_statement']_vars

----------------------------------------------------------------------------
(* Properties of abstract_execution *)

\* the name is an input parameter or the result variable of a statement at a
\* position strictly before k (1-based)
DefinedBefore(name, k) ==
    \/ name \in Range(program_arg_names)
    \/ \E j \in 1..(k - 1) : statements[j].result_var_name = StrV(name)

\* what Invariant I1 and the allowed-functions table ask of statement k
StatementValid(allowed_func, k) ==
    LET stmt == statements[k]
    IN /\ stmt.func.kind = "str"
       /\ stmt.func.s \in DOMAIN allowed_func
       /\ PyLen(stmt.args) = allowed_func[stmt.func.s]
       /\ \A m \in 1..PyLen(stmt.args) : DefinedBefore(PyItems(stmt.args)[m], k)

\* C10: abstract_check succeeds if and only if the program contains a return
\* statement and every statement has an allowed function, the declared
\* argument count and only arguments defined before it.
C10_AbstractCheckSucceedsIffValid ==
    [][\A allowed_func \in AllowedTables :
          abstract_execution(allowed_func) =>
              ((last'.exc = "") <=>
                  (/\ ContainsReturnStatement
                   /\ \A k \in 1..Len(statements) :
                          StatementValid(allowed_func, k)))]_vars

\* the 1-based position of the first statement that breaks a rule of the
\* check (0 if every statement is valid)
FirstViolation(allowed_func) ==
    LET bad == {k \in 1..Len(statements) : ~StatementValid(allowed_func, k)}
    IN IF bad = {} THEN 0 ELSE CHOOSE k \in bad : \A m \in bad : k <= m

\* the first rule statement k breaks, in the order unknown function, argument
\* count, undefined argument
ViolationKind(allowed_func, k) ==
    LET stmt == statements[k]
    IN IF stmt.func.kind # "str" \/ stmt.func.s \notin DOMAIN allowed_func
       THEN "not_allowed"
       ELSE IF PyLen(stmt.args) # allowed_func[stmt.func.s]
       THEN "arg_count"
       ELSE "not_defined"

\* C11: abstract_check on a program without a return statement fails with the
\* missing-return error, whatever else is wrong with the program; on a
\* program with a return statement and a violation the error names the
\* lowest statement index with a violation and reports an unknown function
\* before an argument count mismatch before an undefined argument.
C11_AbstractCheckFailFastOrder ==
    [][\A allowed_func \in AllowedTables :
          (last'.op = "abstract_execution" /\ abstract_execution(allowed_func)) =>
              IF ~ContainsReturnStatement
              THEN /\ last'.exc = "ExecuteProgramError"
                   /\ last'.why = "no_return"
              ELSE LET k == FirstViolation(allowed_func)
                   IN k # 0 =>
                          /\ last'.exc = "ExecuteProgramError"
                          /\ last'.at = k - 1
                          /\ last'.why = ViolationKind(allowed_func, k)]_vars

----------------------------------------------------------------------------
(* Properties of to_hash and copy *)

\* C12: in every state reached by insert, remove, replace and update calls
\* the hash of a copy of the program equals the hash of the program.
C12_CopyHasSameHash == to_hash(copy(Self)) = to_hash(Self)

\* C12 witness: a program of two statements, the second a return statement
\* that takes the result of the first, so that the copy is a Program object
\* that differs from the original (in has_return_statement)
C12_Witness ==
    /\ Len(statements) = 2
    /\ statements[2].func = StrV(RETURN_KEYWORD)
    /\ statements[2].args = ListV(<<statements[1].result_var_name.s>>)
    /\ has_return_statement
    /\ copy(Self) # Self
    /\ copy(Self).statements = statements

\* the names x<k> an insert can allocate in the model
ResultVariableNames == {VariableName(k) : k \in 1..MaxVariableIndex}

\* one-to-one renamings of the parameters and the result variables: to new
\* names; to the parameters swapped and every x<k> shifted to x<k+1>; and to
\* the same parameters and the x<k> in reverse order
Renamings ==
    {[name \in Range(program_arg_names) \cup ResultVariableNames |->
         IF name = "a" THEN "p" ELSE IF name = "b" THEN "q"
         ELSE "r" \o name],
     [name \in Range(program_arg_names) \cup ResultVariableNames |->
         IF name = "a" THEN "b" ELSE IF name = "b" THEN "a"
         ELSE CHOOSE new \in {VariableName(k + 1) : k \in 1..MaxVariableIndex} :
                  \E k \in 1..MaxVariableIndex :
                      name = VariableName(k) /\ new = VariableName(k + 1)],
     [name \in Range(program_arg_names) \cup ResultVariableNames |->
         IF name \in Range(program_arg_names) THEN name
         ELSE CHOOSE new \in ResultVariableNames :
                  \E k \in 1..MaxVariableIndex :
                      /\ name = VariableName(k)
                      /\ new = VariableName(MaxVariableIndex + 1 - k)]}

\* the name under the renaming
RenamedName(rho, name) == IF name \in DOMAIN rho THEN rho[name] ELSE name

\* the program p under the renaming: another program name, the parameters
\* renamed by position, and the result variables and the arguments renamed
Renamed(p, rho) ==
    LET RenamedValue(v) ==
            IF v.kind = "str" THEN StrV(RenamedName(rho, v.s))
            ELSE IF v.kind = "list"
            THEN ListV([k \in 1..Len(v.l) |-> RenamedName(rho, v.l[k])])
            ELSE v
    IN [p EXCEPT
          !.program_name = "other_program",
          !.program_arg_names = [k \in 1..Len(p.program_arg_names) |->
                                    RenamedName(rho, p.program_arg_names[k])],
          !.variables = [k \in 1..Len(p.variables) |->
                            RenamedName(rho, p.variables[k])],
          !.statements = [k \in 1..Len(p.statements) |->
                             [p.statements[k] EXCEPT
                                 !.args = IF @.kind = "list"
                                          THEN RenamedValue(@) ELSE @,
                                 !.result_var_name = RenamedValue(@)]]]

\* C13: the program and the program under a one-to-one renaming of its
\* parameters (by position) and its result variables, with another program
\* name, have the same hash.
C13_RenamedProgramHasSameHash ==
    \A rho \in Renamings : to_hash(Renamed(Self, rho)) = to_hash(Self)

\* C13 witness: a program of two statements that takes a parameter and the
\* result of its first statement as arguments, and that every renaming turns
\* into a program with other statements
C13_Witness ==
    /\ Len(statements) = 2
    /\ statements[1].args = ListV(<<"a", "b">>)
    /\ statements[2].args = ListV(<<statements[1].result_var_name.s>>)
    /\ \A rho \in Renamings :
           /\ Renamed(Self, rho).statements[1] # statements[1]
           /\ Renamed(Self, rho).statements[2] # statements[2]
           /\ to_hash(Renamed(Self, rho)) = to_hash(Self)

\* the program p with the one argument of statement k set to the literal
WithLiteral(p, k, value) ==
    [p EXCEPT !.statements[k].args = ListV(<<value>>)]

\* C14: two programs that differ in the value of the literal of one const
\* statement only have different hashes.
C14_LiteralValueChangesHash ==
    \A k \in 1..Len(statements) : \A value \in Literals :
        (/\ statements[k].func = StrV(CONST_KEYWORD)
         /\ statements[k].args.kind = "list"
         /\ Len(statements[k].args.l) = 1
         /\ statements[k].args.l[1] \in Literals \ {value}) =>
            to_hash(WithLiteral(Self, k, value)) # to_hash(Self)

\* the calls that edit a program
EditCalls == {"insert_statement", "remove_statement",
              "update_statement_full", "update_statment_args"}

\* C15: an insert, remove, replace or update call on one of the two programs
\* of a copy() leaves the statements (with their argument lists), the
\* variables and the name counter of the other one unchanged; copy() itself
\* changes nothing in the program it is called on and gives the new program
\* the same statements, variables and name counter, so that the first insert
\* on each of the two allocates the same name.
C15_CopyIsIndependent ==
    [][/\ (other # <<>> /\ last'.op \in EditCalls) =>
              /\ other'[1].statements = other[1].statements
              /\ other'[1].variables = other[1].variables
              /\ other'[1].last_variable_index = other[1].last_variable_index
       /\ (other = <<>> /\ last'.op = "copy") =>
              /\ other'[1].statements = statements
              /\ other'[1].variables = variables
              /\ other'[1].last_variable_index = last_variable_index
              /\ statements' = statements
              /\ variables' = variables
              /\ last_variable_index' = last_variable_index]_vars

\* C15 witness: after the copy an insert went through on the program the
\* calls are made on: it allocated the name the other program would allocate
\* next, and the other program still has the statements and variables of the
\* time of the copy, one less than the program the insert was made on
C15_Witness ==
    /\ other # <<>>
    /\ last.op = "insert_statement"
    /\ Len(statements) = 2
    /\ Len(other[1].statements) = 1
    /\ other[1].statements[1] = statements[1]
    /\ statements[2].result_var_name =
           StrV(VariableName(other[1].last_variable_index))
    /\ Len(variables) = Len(other[1].variables) + 1

\* has_return_statement of the Program object p is true exactly when one of
\* its statements has the return marker as its function
HasReturnIffReturnStatement(p) ==
    p.has_return_statement <=>
        \E k \in 1..Len(p.statements) :
            p.statements[k].func = StrV(RETURN_KEYWORD)

\* C16: in every state has_return is true if and only if some statement of
\* the program has the return marker as its function; the same holds of the
\* program made by copy().
C16_HasReturnIffReturnStatement ==
    /\ HasReturnIffReturnStatement(Self)
    /\ other # <<>> => HasReturnIffReturnStatement(other[1])

----------------------------------------------------------------------------
(* Properties of the mutation strategies *)

\* the calls of the four mutation strategies
MutationCalls == {"RemoveStatementMutationStrategy.mutate",
                  "ReplaceStatementMutationStrategy.mutate",
                  "UpdateStatementArgsMutationStrategy.mutate",
                  "InsertStatement.mutate"}

\* the positions of the return statements among stmts
ReturnPositions(stmts) ==
    {k \in 1..Len(stmts) : stmts[k].func = StrV(RETURN_KEYWORD)}

\* Invariant I3: at most one return statement, and it is the last statement
I3(stmts) ==
    /\ Cardinality(ReturnPositions(stmts)) <= 1
    /\ \A k \in ReturnPositions(stmts) : k = Len(stmts)

\* C17: a mutation strategy applied to a program with at most one return
\* statement, positioned last, leaves a program with at most one return
\* statement, positioned last; the table of the Replace strategy may have the
\* return marker among its keys.
C17_MutationPreservesI3 ==
    [][(last'.op \in MutationCalls /\ I3(statements)) => I3(statements')]_vars

\* the step deleted the statement at 1-based position k and nothing else
DeletedOnly(k) == statements' = DeleteAt(statements, k)

\* C18: on a program with at most one return statement, positioned last, the
\* Remove mutation leaves the statements as they are or deletes exactly one
\* of them; the deleted statement is not the return statement and its result
\* variable is not an argument of a statement that remains.
C18_RemoveMutationRemovesOneUnreferenced ==
    [][(last'.op = "RemoveStatementMutationStrategy.mutate" /\ I3(statements)) =>
          \/ statements' = statements
          \/ \E k \in 1..Len(statements) :
                /\ DeletedOnly(k)
                /\ statements[k].func # StrV(RETURN_KEYWORD)
                /\ \A m \in 1..Len(statements') :
                       ~PyIn(statements[k].result_var_name,
                             statements'[m].args)]_vars

\* no statement before the return statement can be removed: every statement
\* is the return statement or has its result variable among the arguments of
\* another statement
NothingRemovable ==
    \A k \in 1..Len(statements) :
        statements[k].func = StrV(RETURN_KEYWORD) \/ ReferencedByOther(k - 1)

\* C19: on a program with at most one return statement, positioned last, the
\* Remove mutation makes at most remove_retries calls of remove_statement and
\* returns without raising; when no statement before the return statement is
\* removable it leaves the statements and the variables as they are.
C19_RemoveMutationBoundedAndSilent ==
    [][(last'.op = "RemoveStatementMutationStrategy.mutate" /\ I3(statements)) =>
          /\ last'.calls <= remove_retries
          /\ last'.exc = ""
          /\ NothingRemovable => UNCHANGED <<statements, variables>>]_vars

\* the positions whose statement the step changed
ChangedPositions ==
    {k \in 1..Len(statements) :
        k > Len(statements') \/ statements'[k] # statements[k]}

\* C20: on a program with at most one return statement, positioned last, the
\* Replace mutation keeps the number of statements and every result variable
\* in its place, changes at most one statement, never the return statement,
\* and changes nothing when the program has no other statement.
C20_ReplaceMutationFrame ==
    [][(last'.op = "ReplaceStatementMutationStrategy.mutate" /\ I3(statements)) =>
          /\ Len(statements') = Len(statements)
          /\ \A k \in 1..Len(statements) :
                 statements'[k].result_var_name = statements[k].result_var_name
          /\ Cardinality(ChangedPositions) <= 1
          /\ \A k \in ChangedPositions :
                 statements[k].func # StrV(RETURN_KEYWORD)
          /\ (\A k \in 1..Len(statements) :
                  statements[k].func = StrV(RETURN_KEYWORD)) =>
                 statements' = statements]_vars

\* C21: the UpdateArgs mutation keeps the number of statements and changes
\* at most one statement; every statement keeps its function, its result
\* variable and its number of arguments, and a program without statements
\* stays without statements.
C21_UpdateArgsMutationFrame ==
    [][(last'.op = "UpdateStatementArgsMutationStrategy.mutate") =>
          /\ Len(statements') = Len(statements)
          /\ Cardinality(ChangedPositions) <= 1
          /\ \A k \in 1..Len(statements) :
                 /\ statements'[k].func = statements[k].func
                 /\ statements'[k].result_var_name =
                        statements[k].result_var_name
                 /\ PyLen(statements'[k].args) = PyLen(statements[k].args)
          /\ statements = <<>> => statements' = <<>>]_vars

\* the UpdateArgs mutation has returned on the built program and the add
\* statement no longer has the arguments it was inserted with
C21_Witness ==
    /\ last.op = "UpdateStatementArgsMutationStrategy.mutate"
    /\ last.exc = ""
    /\ Len(statements) = Len(BuiltStatements)
    /\ statements[1].func = StrV("add")
    /\ statements[1].args # ListV(BuiltStatements[1].args)
    /\ statements[2].func = StrV(RETURN_KEYWORD)

\* C22: when the UpdateArgs mutation gives new arguments to a statement that
\* is not the return statement, the result variable of that statement is not
\* among the new arguments.
C22_UpdateArgsExcludesOwnResult ==
    [][(last'.op = "UpdateStatementArgsMutationStrategy.mutate") =>
          \A k \in ChangedPositions :
              statements[k].func # StrV(RETURN_KEYWORD) =>
                  ~PyIn(statements'[k].result_var_name, statements'[k].args)]_vars

\* every argument of every statement of stmts is one of the names in vrs
ArgumentsInScope(stmts, vrs) ==
    \A k \in 1..Len(stmts) :
        \A m \in 1..PyLen(stmts[k].args) :
            PyItems(stmts[k].args)[m] \in Range(vrs)

\* C23: when every argument of every statement is one of the variables of
\* the program, this is still so after a Replace or an UpdateArgs mutation.
C23_ResampledArgumentsInScope ==
    [][(/\ last'.op \in {"ReplaceStatementMutationStrategy.mutate",
                         "UpdateStatementArgsMutationStrategy.mutate"}
        /\ ArgumentsInScope(statements, variables)) =>
          ArgumentsInScope(statements', variables')]_vars

\* a Replace or UpdateArgs mutation has returned on the built program, the
\* add statement has other arguments than it was inserted with, and every
\* argument is in scope
C23_Witness ==
    /\ last.op \in {"ReplaceStatementMutationStrategy.mutate",
                    "UpdateStatementArgsMutationStrategy.mutate"}
    /\ last.exc = ""
    /\ Len(statements) = Len(BuiltStatements)
    /\ statements[1].args # ListV(BuiltStatements[1].args)
    /\ statements[1].args.l # <<>>
    /\ ArgumentsInScope(statements, variables)

\* C24: the Insert mutation, applied to a program that has statements,
\* inserts one statement: the program has one statement more, and leaving
\* out the new statement gives the statements as they were.
C24_InsertMutationInsertsOneStatement ==
    [][(last'.op = "InsertStatement.mutate" /\ statements # <<>>) =>
          /\ Len(statements') = Len(statements) + 1
          /\ \E k \in 1..Len(statements') :
                 DeleteAt(statements', k) = statements]_vars

\* C25: a mutation strategy leaves the statements, the variables and the
\* name counter of the program it is given as they were, and returns the
\* variant as a Program.
C25_MutationLeavesArgumentUnchanged ==
    [][(last'.op \in MutationCalls) =>
          /\ UNCHANGED <<statements, variables, last_variable_index>>
          /\ last'.exc = "" => last'.result = "Program"]_vars

----------------------------------------------------------------------------
(* Properties of the evolution operators *)

\* the weights do not sum to 1.0 within 1e-6, or one of them is below 0 or
\* above 1
InvalidWeights(mutation_strategies) ==
    \/ Sum(mutation_strategies) < One - Tolerance
    \/ Sum(mutation_strategies) > One + Tolerance
    \/ \E k \in DOMAIN mutation_strategies :
          mutation_strategies[k] < 0 \/ mutation_strategies[k] > One

\* C26: a TournamentSelection apply on a population that is not empty
\* leaves the population as large as it was and never larger than the
\* population it started from; when it returns, the head is gone and the
\* other members are in front, in the order they had.
C26_TournamentKeepsPopulationSize ==
    [][(last'.op = "TournamentSelectionOperator.apply" /\ population # <<>>) =>
          /\ Len(population') = Len(population)
          /\ Len(population') <= Len(InitialPrograms)
          /\ last'.exc = "" =>
                 SubSeq(population', 1, Len(population') - 1) =
                     Tail(population)]_vars

\* C27: after a TournamentSelection apply that evicted the head, the
\* fitness map has no entry for the evicted program, and after every apply
\* every key of the fitness map is a member of the population.
C27_FitnessKeysAreMembers ==
    [][(last'.op = "TournamentSelectionOperator.apply") =>
          /\ last'.args # <<>> => last'.args[2] \notin DOMAIN fitnesses'
          /\ DOMAIN fitnesses' \subseteq Range(population')]_vars

\* an apply has returned: the head it evicted had an entry in the fitness
\* map before, and another member still has one
C27_Witness ==
    /\ last.op = "TournamentSelectionOperator.apply"
    /\ last.exc = ""
    /\ last.args[2] = 1
    /\ Len(population) = Len(InitialPrograms)
    /\ DOMAIN fitnesses # {}

\* C28: the member a TournamentSelection apply appends is a Program, not
\* None, and is none of the objects that were in the population before;
\* those objects keep their statements.
C28_TournamentAppendsMutatedCopy ==
    [][(last'.op = "TournamentSelectionOperator.apply" /\ last'.exc = "") =>
          /\ population'[Len(population')] # NoneObject
          /\ population'[Len(population')] \notin Range(population)
          /\ \A id \in DOMAIN objects \cap DOMAIN objects' :
                 objects'[id].statements = objects[id].statements]_vars

\* C29: a FullPopulationMutation apply keeps the number of slots and the
\* fitness map, and leaves a Program, not None, in every slot.
C29_FullPopulationKeepsPrograms ==
    [][(last'.op = "FullPopulationMutationOperator.apply") =>
          /\ Len(population') = Len(population)
          /\ fitnesses' = fitnesses
          /\ \A k \in 1..Len(population') :
                 population'[k] # NoneObject]_vars

\* C30: constructing a TournamentSelectionOperator raises
\* InvalidMutationStrategiesError exactly when the weights are invalid and
\* otherwise yields the operator with these weights; the operator that
\* exists never has invalid weights.
C30_ConstructionRaisesIffInvalidWeights ==
    [][(last'.op = "TournamentSelectionOperator.__init__") =>
          LET mutation_strategies == last'.args[2]
          IN /\ (last'.exc = "InvalidMutationStrategiesError") <=>
                    InvalidWeights(mutation_strategies)
             /\ ~InvalidWeights(mutation_strategies) =>
                    /\ last'.exc = ""
                    /\ operator' # <<>>
                    /\ operator'[1].mutation_strategies = mutation_strategies
             /\ InvalidWeights(mutation_strategies) => operator' = <<>>
             /\ operator' # <<>> =>
                    ~InvalidWeights(operator'[1].mutation_strategies)]_vars

\* a construction raised for weights that sum to 1.0 within 1e-6 and are
\* not negative: one of them is above 1
C30_Witness ==
    /\ last.op = "TournamentSelectionOperator.__init__"
    /\ last.exc = "InvalidMutationStrategiesError"
    /\ Abs(Sum(last.args[2]) - One) <= Tolerance
    /\ \A k \in Strategies : last.args[2][k] >= 0
    /\ operator = <<>>

\* C31: constructing a FullPopulationMutationOperator with invalid weights
\* raises InvalidMutationStrategiesError and yields no operator.
C31_FullPopulationConstructionValidates ==
    [][(/\ last'.op = "FullPopulationMutationOperator.__init__"
        /\ InvalidWeights(last'.args[1])) =>
          /\ last'.exc = "InvalidMutationStrategiesError"
          /\ operator' = <<>>]_vars

\* one of the conditions ProgramSearch rejects holds of the arguments
\* (min_program_statements, max_program_statements, pop_size,
\* tournament_size, replace_arg_for_const_prob, mutation_strategies)
InvalidSearchArguments(args) ==
    \/ args[1] > args[2]
    \/ args[3] < 0
    \/ args[4] < 0
    \/ args[4] > args[3]
    \/ args[5] < 0 \/ args[5] > One
    \/ InvalidWeights(args[6])

GenerationCalls ==
    <<"_evaluate_population", "_torunament_selection",
      "_mutate_tournament_winner", "_update_population",
      "_replace_error_programs", "_replace_equivalent_programs",
      "stop_condition.step", "_on_step_is_done", "is_met">>

\* the calls of a search() of n generations
RECURSIVE Generations(_)
Generations(n) ==
    IF n = 0 THEN <<>> ELSE GenerationCalls \o Generations(n - 1)

\* C33: search() is governed only by the stop condition: it ends normally
\* the first time is_met() is true, after one generation per false answer,
\* each with its phases in order and one stop_condition.step(); with a stop
\* condition met after max_steps steps it terminates after max_steps
\* generations.
C33_SearchRunsUntilStopCondition ==
    [][last'.op = "ProgramSearch.search" =>
          LET self == search'[1]
              max_steps == search[1].stop_condition.max_steps
          IN /\ last'.exc = ""
             /\ self.pc = "returned"
             /\ self.stop_condition.steps = max_steps
             /\ self.trace = <<"_initialize_population", "is_met">> \o
                                 Generations(max_steps)]_vars

\* C34: a search() that ends returns the pair of the best program found and
\* its fitness.
C34_SearchReturnsBestProgram ==
    [][(last'.op = "ProgramSearch.search" /\ last'.exc = "") =>
          /\ last'.result = "tuple"
          /\ search'[1].best_program # NoneObject]_vars

\* C35: copy() preserves has_return: right after the call the new program
\* and the program it was made from have the same has_return flag.
C35_CopyPreservesHasReturn ==
    [][(other = <<>> /\ last'.op = "copy") =>
          other'[1].has_return_statement = has_return_statement']_vars

\* C36: abstract_execution gives the same outcome on a program and on its
\* copy: with every table of allowed functions it succeeds on the program
\* copy() returns exactly when it succeeds on the program copy() was called
\* on.
C36_AbstractCheckAgreesOnCopy ==
    [][(other = <<>> /\ last'.op = "copy") =>
          \A allowed_func \in AllowedTables :
              (AbstractOutcome(allowed_func).exc = "") <=>
                  (AbstractOutcome(allowed_func)'.exc = "")]_vars

\* C37: the UpdateArgs mutation of a program that has statements and no
\* return statement changes something: the argument list of at least one
\* statement differs from what it was before the call.
C37_UpdateArgsMutationChangesArguments ==
    [][(/\ last'.op = "UpdateStatementArgsMutationStrategy.mutate"
        /\ Len(statements) > 0
        /\ ~has_return_statement) =>
          \E k \in 1..Len(statements) :
              statements'[k].args # statements[k].args]_vars

\* the calls that apply an evolution operator
ApplyCalls == {"TournamentSelectionOperator.apply",
               "FullPopulationMutationOperator.apply"}

\* C38: an evolution operator never mutates a program that keeps its cached
\* fitness: every member of the population that has an entry in the fitness
\* map after an apply has the statements it had before the apply.
C38_NoStaleFitness ==
    [][last'.op \in ApplyCalls =>
          \A id \in Range(population') \cap DOMAIN fitnesses' :
              id \in DOMAIN objects =>
                  objects'[id].statements = objects[id].statements]_vars

\* C39: with every pop_size and tournament_size the validation of
\* ProgramSearch accepts, a TournamentSelection apply on a population of
\* pop_size programs that all have a fitness selects a winner and returns
\* without raising.
C39_AcceptedConfigurationRunsTournament ==
    [][(/\ last'.op = "TournamentSelectionOperator.apply"
        /\ Len(population) = search[1].pop_size
        /\ \A k \in 1..Len(population) : population[k] \in DOMAIN fitnesses) =>
          /\ last'.exc = ""
          /\ last'.args # <<>>
          /\ last'.args[1] \in Range(population)]_vars

\* C40: the result variable insert_statement allocates is not one of the
\* names the program already has in scope, its parameters among them, so
\* that after the call no name is twice in the variables.
C40_AllocatedNameIsFresh ==
    [][(/\ last'.op = "insert_statement"
        /\ \A i, j \in 1..Len(variables) :
               variables[i] = variables[j] => i = j) =>
          /\ variables'[Len(variables')] \notin Range(variables)
          /\ \A i, j \in 1..Len(variables') :
                 variables'[i] = variables'[j] => i = j]_vars

====
